---- MODULE Spec2Model ----
(***************************************************************************)
(* Streaming client for the Mt. Gox push protocol (gox.go,                 *)
(* trade_handler.go, messages.go).                                         *)
(*                                                                         *)
(* The read-and-dispatch pipeline (Start, messages, handle, handleTrade,   *)
(* Close) is specified by Spec; the authenticated call path                *)
(* (NewWithConnection, call, authenticatedSend, sign) by CallSpec.         *)
(*                                                                         *)
(* Go strings and byte slices are sequences: a string is a sequence of     *)
(* one-character strings, a byte slice a record [nil, bytes] with bytes a  *)
(* sequence of numbers in 0..255 (Go tells a nil slice from an empty one). *)
(***************************************************************************)
EXTENDS Integers, Sequences, FiniteSets, TLC

VARIABLES
    \* ---- read-and-dispatch side
    started,      \* number of Start calls made so far
    rpc,          \* per Start: position of the reader goroutine of messages()
    rbuf,         \* per Start: what that reader's ReadMessage returned
    msgs,         \* per Start: the msgs channel made by messages()
    dpc,          \* per Start: position of the goroutine ranging over msgs
    nText,        \* text frames the transport has delivered
    nOther,       \* non-text frames the transport has delivered
    Trades, Ticker, Depth, Info, Orders, Errors, done,   \* the client's channels
    closeCalls,   \* calls of Close made so far
    closeBlocked, \* callers of Close blocked in `g.done <- true`
    got,          \* what the consumer received from Trades, in order
    attempted,    \* the decodes (err, payload) handleTrade offered to Trades, in order
    last,         \* what the most recent run of handle did
    arrived,      \* the trade frames ReadMessage returned, in order
    \* ---- authenticated-call side
    keyStr, secretStr,  \* arguments of NewWithConnection
    client,       \* "ok" when NewWithConnection returned a client, else "error"
    key, secret,  \* g.key, g.secret
    nextId, nextNonce,  \* the ids and nonces generators
    cpc,          \* per caller: position inside call / authenticatedSend
    cmsg,         \* per caller: the msg map built by call
    cenv,         \* per caller: the envelope handed to WriteJSON
    cres,         \* per caller: what call returned
    wire,         \* frames written to the connection, in completion order
    raced,        \* the callers whose WriteJSON overlapped another caller's
    \* ---- decoders applied to one wire value
    wireTrade,    \* the value of a "trade" member given to Trade.UnmarshalJSON
    decoded,      \* what Trade.UnmarshalJSON returned for it
    wireTime,     \* the bytes given to SimpleTime.UnmarshalJSON
    decodedTime   \* what SimpleTime.UnmarshalJSON returned for them

dispVars == <<started, rpc, rbuf, msgs, dpc, nText, nOther, Trades, Ticker, Depth,
              Info, Orders, Errors, done, closeCalls, closeBlocked, got,
              attempted, last, arrived>>
callVars == <<keyStr, secretStr, client, key, secret, nextId, nextNonce, cpc,
              cmsg, cenv, cres, wire, raced>>
decVars == <<wireTrade, decoded, wireTime, decodedTime>>
vars == <<dispVars, callVars, decVars>>

-----------------------------------------------------------------------------
(* Bounds of the model *)

MaxStarts == 2
MaxText == 2
MaxOther == 1
MaxClose == 2
MaxCallers == 2

(* Channel capacities set by the program *)

TickerCap == 1
InfoCap == 1
DepthCap == 1
TradesCap == 1
OrdersCap == 1
ErrorsCap == 10
DoneCap == 1
MsgsCap == 10

-----------------------------------------------------------------------------
(* Byte slices and strings *)

Slice(bs) == [nil |-> FALSE, bytes |-> bs]
NilSlice == [nil |-> TRUE, bytes |-> <<>>]

\* strings.Replace(s, c, "", -1) for a one-character c
RemoveAll(s, c) == SelectSeq(s, LAMBDA x : x # c)

HexLower == <<"0","1","2","3","4","5","6","7","8","9","a","b","c","d","e","f">>
HexUpper == <<"0","1","2","3","4","5","6","7","8","9","A","B","C","D","E","F">>

IsHexChar(c) == \E i \in 1..16 : HexLower[i] = c \/ HexUpper[i] = c
FromHexChar(c) == (CHOOSE i \in 1..16 : HexLower[i] = c \/ HexUpper[i] = c) - 1

RECURSIVE HexPairs(_)
HexPairs(s) ==
    IF Len(s) < 2 THEN <<>>
    ELSE <<FromHexChar(s[1]) * 16 + FromHexChar(s[2])>> \o HexPairs(SubSeq(s, 3, Len(s)))

\* hex.DecodeString: a fresh (non-nil) slice, or an error on a character that is not
\* a hex digit or on an odd length.
HexDecodeString(s) ==
    IF (\E i \in 1..Len(s) : ~IsHexChar(s[i])) \/ Len(s) % 2 # 0
    THEN [err |-> TRUE, val |-> NilSlice]
    ELSE [err |-> FALSE, val |-> Slice(HexPairs(s))]

B64Chars == <<"A","B","C","D","E","F","G","H","I","J","K","L","M","N","O","P",
              "Q","R","S","T","U","V","W","X","Y","Z","a","b","c","d","e","f",
              "g","h","i","j","k","l","m","n","o","p","q","r","s","t","u","v",
              "w","x","y","z","0","1","2","3","4","5","6","7","8","9","+","/">>

IsB64Char(c) == \E i \in 1..64 : B64Chars[i] = c
B64Val(c) == (CHOOSE i \in 1..64 : B64Chars[i] = c) - 1
B64Chr(n) == B64Chars[n + 1]

\* base64.StdEncoding.EncodeToString: every three bytes give four characters, and
\* a last group of one or two bytes is padded with "="
Base64Encode(bs) ==
    LET n == Len(bs)
        byte(i) == IF i <= n THEN bs[i] ELSE 0
        char(p) ==
            LET g == 3 * ((p - 1) \div 4)
                k == (p - 1) % 4
            IN  IF k = 0 THEN B64Chr(byte(g + 1) \div 4)
                ELSE IF k = 1 THEN B64Chr((byte(g + 1) % 4) * 16 + byte(g + 2) \div 16)
                ELSE IF k = 2 THEN
                    IF g + 2 > n THEN "="
                    ELSE B64Chr((byte(g + 2) % 16) * 4 + byte(g + 3) \div 64)
                ELSE IF g + 3 > n THEN "=" ELSE B64Chr(byte(g + 3) % 64)
    IN  [p \in 1..(4 * ((n + 2) \div 3)) |-> char(p)]

\* One quantum of four characters; padding is legal in the last quantum only.
B64QuantumOk(q, isLast) ==
    /\ IsB64Char(q[1]) /\ IsB64Char(q[2])
    /\ \/ IsB64Char(q[3]) /\ IsB64Char(q[4])
       \/ isLast /\ IsB64Char(q[3]) /\ q[4] = "="
       \/ isLast /\ q[3] = "=" /\ q[4] = "="

B64Quantum(q) ==
    LET a == B64Val(q[1])
        b == B64Val(q[2])
    IN  IF q[3] = "=" THEN <<a * 4 + b \div 16>>
        ELSE IF q[4] = "=" THEN
            <<a * 4 + b \div 16, (b % 16) * 16 + B64Val(q[3]) \div 4>>
        ELSE <<a * 4 + b \div 16, (b % 16) * 16 + B64Val(q[3]) \div 4,
               (B64Val(q[3]) % 4) * 64 + B64Val(q[4])>>

\* The bytes of a string of legal quanta
B64Quanta(s) ==
    LET n == Len(s)
        pad == IF n = 0 THEN 0 ELSE IF s[n - 1] = "=" THEN 2 ELSE IF s[n] = "=" THEN 1 ELSE 0
    IN  [j \in 1..(3 * (n \div 4) - pad) |->
            B64Quantum(SubSeq(s, 4 * ((j - 1) \div 3) + 1,
                              4 * ((j - 1) \div 3) + 4))[((j - 1) % 3) + 1]]

\* base64.StdEncoding.DecodeString: carriage returns and line feeds are skipped;
\* the result is a fresh (non-nil) slice, or an error
Base64DecodeString(s) ==
    LET t == RemoveAll(RemoveAll(s, "\r"), "\n")
    IN  IF \/ Len(t) % 4 # 0
           \/ \E i \in 0..(Len(t) \div 4 - 1) :
                  ~B64QuantumOk(SubSeq(t, 4 * i + 1, 4 * i + 4), i = Len(t) \div 4 - 1)
        THEN [err |-> TRUE, val |-> NilSlice]
        ELSE [err |-> FALSE, val |-> Slice(B64Quanta(t))]

-----------------------------------------------------------------------------
(* Trade decoding (trade_handler.go) *)

Digits == <<"0","1","2","3","4","5","6","7","8","9">>
IsDigit(c) == \E i \in 1..10 : Digits[i] = c
DigitVal(c) == (CHOOSE i \in 1..10 : Digits[i] = c) - 1

RECURSIVE DecimalValue(_)
DecimalValue(s) ==
    IF s = <<>> THEN 0
    ELSE DecimalValue(SubSeq(s, 1, Len(s) - 1)) * 10 + DigitVal(s[Len(s)])

\* An int64 is kept as its sign and its decimal magnitude without leading zeros,
\* so that every value of the 64-bit range can be written down.
Int64(neg, mag) == [neg |-> neg, mag |-> mag]
ZeroInt64 == Int64(FALSE, <<"0">>)
MaxInt64 ==
    Int64(FALSE, <<"9","2","2","3","3","7","2","0","3","6","8","5","4","7","7","5",
                   "8","0","7">>)
MinInt64 ==
    Int64(TRUE, <<"9","2","2","3","3","7","2","0","3","6","8","5","4","7","7","5",
                  "8","0","8">>)

RECURSIVE StripZeros(_)
StripZeros(ds) == IF Len(ds) > 1 /\ ds[1] = "0" THEN StripZeros(Tail(ds)) ELSE ds

\* a < b, for magnitudes without leading zeros
MagLess(a, b) ==
    \/ Len(a) < Len(b)
    \/ /\ Len(a) = Len(b)
       /\ \E i \in 1..Len(a) :
              /\ DigitVal(a[i]) < DigitVal(b[i])
              /\ \A j \in 1..(i - 1) : a[j] = b[j]

MaxUint64Mag ==
    <<"1","8","4","4","6","7","4","4","0","7","3","7","0","9","5","5","1","6","1","5">>

RECURSIVE DigitPrefix(_)
\* The digits s begins with
DigitPrefix(s) ==
    IF s # <<>> /\ IsDigit(s[1]) THEN <<s[1]>> \o DigitPrefix(Tail(s)) ELSE <<>>

\* The mutation of ParseInt that loses the sign
ParseIntUnsigned(s) ==
    LET signed == s # <<>> /\ s[1] \in {"+", "-"}
        neg == signed /\ s[1] = "-"
        body == IF signed THEN Tail(s) ELSE s
        Value(digits) ==
            LET mag == StripZeros(digits)
            IN  IF digits # <<>> /\ MagLess(MaxUint64Mag, mag)
                THEN [err |-> TRUE, val |-> MaxInt64]
                ELSE IF body = <<>> \/ digits # body
                THEN [err |-> TRUE, val |-> ZeroInt64]
                ELSE IF MagLess(MaxInt64.mag, mag)
                THEN [err |-> TRUE, val |-> MaxInt64]
                ELSE [err |-> FALSE, val |-> Int64(FALSE, mag)]
    IN  CHOOSE r \in {Value(digits) : digits \in {DigitPrefix(body)}} : TRUE

\* strconv.ParseInt(s, 10, 64): an optional sign, then ParseUint reads the digits
\* from the left, once.  It gives a range error as soon as the digits read exceed
\* 64 bits, before it looks at what follows them; else a syntax error (value 0)
\* for a character that is not a digit or for no digit at all.  ParseInt then
\* gives a range error for a magnitude outside the signed range.  On a range
\* error the value returned is the nearest value of the range.
ParseInt(s) ==
    LET signed == s # <<>> /\ s[1] \in {"+", "-"}
        neg == signed /\ s[1] = "-"
        body == IF signed THEN Tail(s) ELSE s
        Value(digits) ==
            LET mag == StripZeros(digits)
            IN  IF digits # <<>> /\ MagLess(MaxUint64Mag, mag)
                THEN [err |-> TRUE, val |-> IF neg THEN MinInt64 ELSE MaxInt64]
                ELSE IF body = <<>> \/ digits # body
                THEN [err |-> TRUE, val |-> ZeroInt64]
                ELSE IF ~neg /\ MagLess(MaxInt64.mag, mag)
                THEN [err |-> TRUE, val |-> MaxInt64]
                ELSE IF neg /\ MagLess(MinInt64.mag, mag)
                THEN [err |-> TRUE, val |-> MinInt64]
                ELSE [err |-> FALSE, val |-> Int64(neg /\ mag # <<"0">>, mag)]
    IN  CHOOSE r \in {Value(digits) : digits \in {DigitPrefix(body)}} : TRUE

\* time.Time: the zero Time is not an epoch time
ZeroTime == [zero |-> TRUE, unix |-> 0]
TimeUnix(sec) == [zero |-> FALSE, unix |-> sec]

\* int64(vv) of a float64 given in tenths: truncation toward zero
Int64OfTenths(n) == IF n >= 0 THEN n \div 10 ELSE 0 - ((0 - n) \div 10)

ZeroTrade ==
    [Type |-> <<>>, Tid |-> <<>>, Amount |-> ZeroInt64, Price |-> ZeroInt64,
     Instrument |-> <<>>,
     Currency |-> <<>>, TradeType |-> <<>>, Primary |-> <<>>, Properties |-> <<>>,
     Timestamp |-> ZeroTime]

\* JSON values of the untyped map: a string, a number (in tenths) or anything else
JStr(s) == [kind |-> "string", s |-> s, n |-> 0]
JNum(tenths) == [kind |-> "number", s |-> <<>>, n |-> tenths]
JOther == [kind |-> "other", s |-> <<>>, n |-> 0]

\* The key switch with the cases "item" and "price_currency" exchanged
TradeFieldSwapped(t, k, v) ==
    IF v.kind = "string" THEN
        CASE k = "type" -> [err |-> FALSE, t |-> [t EXCEPT !.Type = v.s]]
          [] k = "tid" -> [err |-> FALSE, t |-> [t EXCEPT !.Tid = v.s]]
          [] k = "item" -> [err |-> FALSE, t |-> [t EXCEPT !.Currency = v.s]]
          [] k = "price_currency" -> [err |-> FALSE, t |-> [t EXCEPT !.Instrument = v.s]]
          [] k = "trade_type" -> [err |-> FALSE, t |-> [t EXCEPT !.TradeType = v.s]]
          [] k = "primary" -> [err |-> FALSE, t |-> [t EXCEPT !.Primary = v.s]]
          [] k = "properties" -> [err |-> FALSE, t |-> [t EXCEPT !.Properties = v.s]]
          [] k = "amount_int" ->
                [err |-> ParseInt(v.s).err, t |-> [t EXCEPT !.Amount = ParseInt(v.s).val]]
          [] k = "price_int" ->
                [err |-> ParseInt(v.s).err, t |-> [t EXCEPT !.Price = ParseInt(v.s).val]]
          [] OTHER -> [err |-> FALSE, t |-> t]
    ELSE IF v.kind = "number" /\ k = "date" THEN
        [err |-> FALSE, t |-> [t EXCEPT !.Timestamp = TimeUnix(Int64OfTenths(v.n))]]
    ELSE [err |-> FALSE, t |-> t]

\* One iteration of `for k, v := range raw`: the type switch, then the key switch.
TradeField(t, k, v) ==
    IF v.kind = "string" THEN
        CASE k = "type" -> [err |-> FALSE, t |-> [t EXCEPT !.Type = v.s]]
          [] k = "tid" -> [err |-> FALSE, t |-> [t EXCEPT !.Tid = v.s]]
          [] k = "item" -> [err |-> FALSE, t |-> [t EXCEPT !.Instrument = v.s]]
          [] k = "price_currency" -> [err |-> FALSE, t |-> [t EXCEPT !.Currency = v.s]]
          [] k = "trade_type" -> [err |-> FALSE, t |-> [t EXCEPT !.TradeType = v.s]]
          [] k = "primary" -> [err |-> FALSE, t |-> [t EXCEPT !.Primary = v.s]]
          [] k = "properties" -> [err |-> FALSE, t |-> [t EXCEPT !.Properties = v.s]]
          [] k = "amount_int" ->
                [err |-> ParseInt(v.s).err, t |-> [t EXCEPT !.Amount = ParseInt(v.s).val]]
          [] k = "price_int" ->
                [err |-> ParseInt(v.s).err, t |-> [t EXCEPT !.Price = ParseInt(v.s).val]]
          [] OTHER -> [err |-> FALSE, t |-> t]
    ELSE IF v.kind = "number" /\ k = "date" THEN
        [err |-> FALSE, t |-> [t EXCEPT !.Timestamp = TimeUnix(Int64OfTenths(v.n))]]
    ELSE [err |-> FALSE, t |-> t]

RECURSIVE TradeFields(_, _, _)
\* The loop over raw in the order the map iteration visits the keys; it returns at
\* the first error, leaving the fields set so far.
TradeFields(t, raw, order) ==
    IF order = <<>> THEN [err |-> FALSE, t |-> t]
    ELSE LET r == TradeField(t, Head(order), raw[Head(order)])
         IN  IF r.err THEN r ELSE TradeFields(r.t, raw, Tail(order))

\* The orders in which a range over the map may visit its keys
KeyOrders(raw) ==
    LET D == DOMAIN raw
        n == Cardinality(D)
    IN  {o \in [1..n -> D] : \A i, j \in 1..n : i # j => o[i] # o[j]}

\* A decoder that takes only a JSON object
TradeUnmarshalJSONStrict(kind, raw, order) ==
    IF kind # "object" THEN [err |-> TRUE, t |-> ZeroTrade]
    ELSE TradeFields(ZeroTrade, raw, order)

\* Trade.UnmarshalJSON on a JSON value.  json.Unmarshal(data, &raw) puts an
\* object's members in the map, leaves the map nil for the JSON null, so that
\* the loop runs over nothing, and fails for a value of any other kind (a string,
\* a number, a boolean, an array).
TradeUnmarshalJSON(kind, raw, order) ==
    CASE kind = "object" -> TradeFields(ZeroTrade, raw, order)
      [] kind = "null" -> TradeFields(ZeroTrade, raw, <<>>)
      [] OTHER -> [err |-> TRUE, t |-> ZeroTrade]

-----------------------------------------------------------------------------
(* Frames *)

TextMessage == 1
\* the only other type ReadMessage hands to the application
BinaryMessage == TextMessage + 1

NoMembers == [k \in {} |-> JOther]

\* The data of a text frame: whether it is JSON at all, its `private` member, its
\* "trade" member (tkind: "absent", "object" with members trade, "null", or "string"), and for
\* the other categories whether the category's payload decodes (ok).  The `private`
\* member comes ahead of the "trade" member and the other header members have the
\* type of their field, unless tradeFirst and headerOk say otherwise.
TextData(json, private, tkind, trade, ok) ==
    [json |-> json, private |-> private, tkind |-> tkind, trade |-> trade, ok |-> ok,
     tradeFirst |-> FALSE, headerOk |-> TRUE]

TradeA == [tid |-> JStr(<<"1">>), amount_int |-> JStr(<<"5">>),
           price_int |-> JStr(<<"4","2">>), date |-> JNum(175)]
TradeB == [tid |-> JStr(<<"2">>), amount_int |-> JStr(<<"-","7">>), note |-> JStr(<<"x">>)]
TradeBad == [tid |-> JStr(<<"3">>), amount_int |-> JStr(<<"5","x">>)]

TradeFrames ==
    { TextData(TRUE, "trade", "object", TradeA, TRUE),
      TextData(TRUE, "trade", "object", TradeB, TRUE),
      TextData(TRUE, "trade", "object", TradeBad, TRUE),
      \* {"trade":{...},"private":"trade"}
      [TextData(TRUE, "trade", "object", TradeBad, TRUE) EXCEPT !.tradeFirst = TRUE],
      \* {"private":"trade","channel":5,"trade":{...}}
      [TextData(TRUE, "trade", "object", TradeA, TRUE) EXCEPT !.headerOk = FALSE] }

OtherFrames ==
    { TextData(TRUE, "ticker", "absent", NoMembers, TRUE),
      TextData(TRUE, "depth", "absent", NoMembers, TRUE),
      TextData(TRUE, "result", "absent", NoMembers, TRUE),
      TextData(TRUE, "debug", "absent", NoMembers, TRUE),
      TextData(TRUE, "remark", "absent", NoMembers, TRUE),
      TextData(FALSE, "trade", "absent", NoMembers, TRUE) }

TextFrames == TradeFrames \cup OtherFrames

NoData == TextData(FALSE, "", "absent", NoMembers, FALSE)

\* A frame of the trade category
IsTradeFrame(d) == d.json /\ d.private = "trade"

-----------------------------------------------------------------------------
(* The client's channels and the dispatcher (gox.go, trade_handler.go) *)

Tasks == 1..MaxStarts

\* A send that makes room by discarding the oldest value
TrySendLatest(ch, cap, v) == IF Len(ch) < cap THEN Append(ch, v) ELSE Append(Tail(ch), v)

\* select { case ch <- v: default: }
TrySend(ch, cap, v) == IF Len(ch) < cap THEN Append(ch, v) ELSE ch

\* StreamHeader, of which only the routing key is kept
ZeroHeader == [Private |-> ""]

\* json.Unmarshal(data, &header) with its error ignored: text that is not JSON
\* leaves the header at its zero value.
UnmarshalHeader(data) == IF data.json THEN [Private |-> data.private] ELSE ZeroHeader

ZeroTradePayload == [Private |-> "", Trade |-> ZeroTrade]

\* json.Unmarshal(data, &payload) for a TradePayload, member by member in the
\* order of the text.  An error of Trade.UnmarshalJSON ends the decoding there, so
\* that a `private` member after it is not stored.  A header member of another
\* type than its field is skipped and reported when the decoding is over.
UnmarshalTradePayload(data, order) ==
    IF ~data.json THEN [err |-> TRUE, payload |-> ZeroTradePayload]
    ELSE LET r == IF data.tkind = "absent" THEN [err |-> FALSE, t |-> ZeroTrade]
                  ELSE TradeUnmarshalJSON(data.tkind, data.trade, order)
             private == IF r.err /\ data.tradeFirst THEN "" ELSE data.private
         IN  [err |-> r.err \/ ~data.headerOk,
              payload |-> [Private |-> private, Trade |-> r.t]]

\* The switch without its "result" case
RouteNoResult(private) ==
    CASE private = "debug" -> "debug"
      [] private = "ticker" -> "ticker"
      [] private = "trade" -> "trade"
      [] private = "depth" -> "depth"
      [] OTHER -> "default"

\* The branch of the switch in handle
Route(private) ==
    CASE private = "debug" -> "debug"
      [] private = "ticker" -> "ticker"
      [] private = "trade" -> "trade"
      [] private = "depth" -> "depth"
      [] private = "result" -> "result"
      [] OTHER -> "default"

\* What one run of handle did: the frame, the branch taken, the sends attempted on
\* Errors (errTried) and on the output channels (pubTried), the values the output
\* channels took (sent), the diagnostic dumps printed, and whether Close had
\* already signalled.
Ran(task, data, branch, decodeErr, errTried, pubTried, sent, dumps) ==
    [seq |-> last.seq + 1, task |-> task, frame |-> data, branch |-> branch,
     decodeErr |-> decodeErr, errTried |-> errTried, pubTried |-> pubTried,
     sent |-> sent, dumps |-> dumps, afterClose |-> done # <<>>]

NeverRan ==
    [seq |-> 0, task |-> 0, frame |-> NoData, branch |-> "none", decodeErr |-> FALSE,
     errTried |-> 0, pubTried |-> 0, sent |-> 0, dumps |-> 0, afterClose |-> FALSE]

\* handleTrade with `g.Trades <- &payload` in place of the select
handleTradeBlocking(task, data, order) ==
    LET r == UnmarshalTradePayload(data, order)
    IN  /\ Len(Trades) < TradesCap
        /\ Errors' = IF r.err THEN TrySend(Errors, ErrorsCap, "decode") ELSE Errors
        /\ Trades' = Append(Trades, r.payload)
        /\ attempted' = Append(attempted, r)
        /\ last' = Ran(task, data, "trade", r.err, IF r.err THEN 1 ELSE 0, 1, 1, 0)
        /\ UNCHANGED <<Ticker, Depth, Info, Orders>>

handleTrade(task, data, order) ==
    LET r == UnmarshalTradePayload(data, order)
        offered == TrySend(Trades, TradesCap, r.payload)
    IN  /\ Errors' = IF r.err THEN TrySend(Errors, ErrorsCap, "decode") ELSE Errors
        /\ Trades' = offered
        /\ attempted' = Append(attempted, r)
        /\ last' = Ran(task, data, "trade", r.err, IF r.err THEN 1 ELSE 0, 1,
                       Len(offered) - Len(Trades), 0)
        /\ UNCHANGED <<Ticker, Depth, Info, Orders>>

\* handleTicker, handleDepth and handleResult: decode the category's record; a decode
\* error is offered to Errors and nothing is published, else the record is offered
\* to the category's channel.
handleTicker(task, data) ==
    LET offered == TrySend(Ticker, TickerCap, [Private |-> data.private])
    IN  /\ Errors' = IF data.ok THEN Errors ELSE TrySend(Errors, ErrorsCap, "decode")
        /\ Ticker' = IF data.ok THEN offered ELSE Ticker
        /\ last' = Ran(task, data, "ticker", ~data.ok, IF data.ok THEN 0 ELSE 1,
                       IF data.ok THEN 1 ELSE 0,
                       IF data.ok THEN Len(offered) - Len(Ticker) ELSE 0, 0)
        /\ UNCHANGED <<Trades, Depth, Info, Orders, attempted>>

handleDepth(task, data) ==
    LET offered == TrySend(Depth, DepthCap, [Private |-> data.private])
    IN  /\ Errors' = IF data.ok THEN Errors ELSE TrySend(Errors, ErrorsCap, "decode")
        /\ Depth' = IF data.ok THEN offered ELSE Depth
        /\ last' = Ran(task, data, "depth", ~data.ok, IF data.ok THEN 0 ELSE 1,
                       IF data.ok THEN 1 ELSE 0,
                       IF data.ok THEN Len(offered) - Len(Depth) ELSE 0, 0)
        /\ UNCHANGED <<Trades, Ticker, Info, Orders, attempted>>

handleResult(task, data) ==
    LET offered == TrySend(Info, InfoCap, [Private |-> data.private])
    IN  /\ Errors' = IF data.ok THEN Errors ELSE TrySend(Errors, ErrorsCap, "decode")
        /\ Info' = IF data.ok THEN offered ELSE Info
        /\ last' = Ran(task, data, "result", ~data.ok, IF data.ok THEN 0 ELSE 1,
                       IF data.ok THEN 1 ELSE 0,
                       IF data.ok THEN Len(offered) - Len(Info) ELSE 0, 0)
        /\ UNCHANGED <<Trades, Ticker, Depth, Orders, attempted>>

\* handleDebug: a diagnostic dump, no typed event
handleDebug(task, data) ==
    /\ last' = Ran(task, data, "debug", FALSE, 0, 0, 0, 1)
    /\ UNCHANGED <<Trades, Ticker, Depth, Info, Orders, Errors, attempted>>

\* The default branch of handle: the discriminator is printed, then the generic
\* decode of the frame is pretty-printed once.
handleDefault(task, data) ==
    /\ last' = Ran(task, data, "default", FALSE, 0, 0, 0, 1)
    /\ UNCHANGED <<Trades, Ticker, Depth, Info, Orders, Errors, attempted>>

\* handle(data)
handle(task, data) ==
    LET branch == Route(UnmarshalHeader(data).Private)
    IN  CASE branch = "debug" -> handleDebug(task, data)
          [] branch = "ticker" -> handleTicker(task, data)
          [] branch = "trade" ->
                \E order \in KeyOrders(data.trade) : handleTrade(task, data, order)
          [] branch = "depth" -> handleDepth(task, data)
          [] branch = "result" -> handleResult(task, data)
          [] OTHER -> handleDefault(task, data)

-----------------------------------------------------------------------------
(* Actions of the read-and-dispatch side *)

NoRead == [messageType |-> 0, data |-> NoData, err |-> FALSE]

\* Start: messages() makes msgs and starts the reader; a goroutine ranges over msgs.
\* The application calls Start at most max times.
Start(max) ==
    /\ client = "ok"
    /\ started < max
    /\ started' = started + 1
    /\ rpc' = [rpc EXCEPT ![started + 1] = "read"]
    /\ dpc' = [dpc EXCEPT ![started + 1] = "range"]
    /\ UNCHANGED <<rbuf, msgs, nText, nOther, Trades, Ticker, Depth, Info, Orders,
                   Errors, done, closeCalls, closeBlocked, got, attempted, last>>
    /\ UNCHANGED <<arrived, callVars, decVars>>

\* g.conn.ReadMessage() returns a text frame
ReadText(i) ==
    /\ rpc[i] = "read"
    /\ nText < MaxText
    /\ \E d \in TextFrames :
          /\ rbuf' = [rbuf EXCEPT ![i] =
                         [messageType |-> TextMessage, data |-> d, err |-> FALSE]]
          /\ arrived' = IF IsTradeFrame(d) THEN Append(arrived, d) ELSE arrived
    /\ rpc' = [rpc EXCEPT ![i] = "sendMsg"]
    /\ nText' = nText + 1
    /\ UNCHANGED <<started, msgs, dpc, nOther, Trades, Ticker, Depth, Info, Orders,
                   Errors, done, closeCalls, closeBlocked, got, attempted, last>>
    /\ UNCHANGED <<callVars, decVars>>

\* g.conn.ReadMessage() returns a frame that is not a text frame (at most max of them)
ReadOther(i, max) ==
    /\ rpc[i] = "read"
    /\ nOther < max
    /\ rbuf' = [rbuf EXCEPT ![i] =
                   [messageType |-> BinaryMessage, data |-> NoData, err |-> FALSE]]
    /\ rpc' = [rpc EXCEPT ![i] = "sendTypeErr"]
    /\ nOther' = nOther + 1
    /\ UNCHANGED <<started, msgs, dpc, nText, Trades, Ticker, Depth, Info, Orders,
                   Errors, done, closeCalls, closeBlocked, got, attempted, last>>
    /\ UNCHANGED <<arrived, callVars, decVars>>

\* g.conn.ReadMessage() returns an error
ReadFails(i) ==
    /\ rpc[i] = "read"
    /\ rbuf' = [rbuf EXCEPT ![i] = [messageType |-> 0, data |-> NoData, err |-> TRUE]]
    /\ rpc' = [rpc EXCEPT ![i] = "sendErr"]
    /\ UNCHANGED <<started, msgs, dpc, nText, nOther, Trades, Ticker, Depth, Info,
                   Orders, Errors, done, closeCalls, closeBlocked, got, attempted, last>>
    /\ UNCHANGED <<arrived, callVars, decVars>>

\* g.Errors <- err; break
SendReadError(i) ==
    /\ rpc[i] = "sendErr"
    /\ Len(Errors) < ErrorsCap
    /\ Errors' = Append(Errors, "read")
    /\ rpc' = [rpc EXCEPT ![i] = "stopped"]
    /\ rbuf' = [rbuf EXCEPT ![i] = NoRead]
    /\ UNCHANGED <<started, msgs, dpc, nText, nOther, Trades, Ticker, Depth, Info,
                   Orders, done, closeCalls, closeBlocked, got, attempted, last>>
    /\ UNCHANGED <<arrived, callVars, decVars>>

\* A reader that puts the frame ahead of the frames already queued
SendMsgFront(i) ==
    /\ rpc[i] = "sendMsg"
    /\ Len(msgs[i]) < MsgsCap
    /\ msgs' = [msgs EXCEPT ![i] = <<rbuf[i].data>> \o @]
    /\ rpc' = [rpc EXCEPT ![i] = "read"]
    /\ rbuf' = [rbuf EXCEPT ![i] = NoRead]
    /\ UNCHANGED <<started, dpc, nText, nOther, Trades, Ticker, Depth, Info, Orders,
                   Errors, done, closeCalls, closeBlocked, got, attempted, last>>
    /\ UNCHANGED <<arrived, callVars, decVars>>

\* msgs <- data
SendMsg(i) ==
    /\ rpc[i] = "sendMsg"
    /\ Len(msgs[i]) < MsgsCap
    /\ msgs' = [msgs EXCEPT ![i] = Append(@, rbuf[i].data)]
    /\ rpc' = [rpc EXCEPT ![i] = "read"]
    /\ rbuf' = [rbuf EXCEPT ![i] = NoRead]
    /\ UNCHANGED <<started, dpc, nText, nOther, Trades, Ticker, Depth, Info, Orders,
                   Errors, done, closeCalls, closeBlocked, got, attempted, last>>
    /\ UNCHANGED <<arrived, callVars, decVars>>

\* A reader that leaves its loop after reporting the frame type
SendTypeErrorBreak(i) ==
    /\ rpc[i] = "sendTypeErr"
    /\ Len(Errors) < ErrorsCap
    /\ Errors' = Append(Errors, "type")
    /\ rpc' = [rpc EXCEPT ![i] = "stopped"]
    /\ rbuf' = [rbuf EXCEPT ![i] = NoRead]
    /\ UNCHANGED <<started, msgs, dpc, nText, nOther, Trades, Ticker, Depth, Info,
                   Orders, done, closeCalls, closeBlocked, got, attempted, last>>
    /\ UNCHANGED <<arrived, callVars, decVars>>

\* g.Errors <- fmt.Errorf("Received unknown message type: %d", messageType)
SendTypeError(i) ==
    /\ rpc[i] = "sendTypeErr"
    /\ Len(Errors) < ErrorsCap
    /\ Errors' = Append(Errors, "type")
    /\ rpc' = [rpc EXCEPT ![i] = "read"]
    /\ rbuf' = [rbuf EXCEPT ![i] = NoRead]
    /\ UNCHANGED <<started, msgs, dpc, nText, nOther, Trades, Ticker, Depth, Info,
                   Orders, done, closeCalls, closeBlocked, got, attempted, last>>
    /\ UNCHANGED <<arrived, callVars, decVars>>

\* One iteration of `for p := range g.messages() { g.handle(p) }`
Dispatch(i) ==
    /\ dpc[i] = "range"
    /\ msgs[i] # <<>>
    /\ msgs' = [msgs EXCEPT ![i] = Tail(@)]
    /\ handle(i, Head(msgs[i]))
    /\ UNCHANGED <<started, rpc, rbuf, dpc, nText, nOther, done, closeCalls,
                   closeBlocked, got>>
    /\ UNCHANGED <<arrived, callVars, decVars>>

\* Close: g.done <- true, on a channel of capacity 1 that nothing receives from
Close ==
    /\ client = "ok"
    /\ closeCalls < MaxClose
    /\ closeCalls' = closeCalls + 1
    /\ IF Len(done) < DoneCap
       THEN done' = Append(done, TRUE) /\ UNCHANGED closeBlocked
       ELSE closeBlocked' = closeBlocked + 1 /\ UNCHANGED done
    /\ UNCHANGED <<started, rpc, rbuf, msgs, dpc, nText, nOther, Trades, Ticker,
                   Depth, Info, Orders, Errors, got, attempted, last>>
    /\ UNCHANGED <<arrived, callVars, decVars>>

\* A consumer receives from Trades
RecvTrades ==
    /\ Trades # <<>>
    /\ got' = Append(got, Head(Trades))
    /\ Trades' = Tail(Trades)
    /\ UNCHANGED <<started, rpc, rbuf, msgs, dpc, nText, nOther, Ticker, Depth, Info,
                   Orders, Errors, done, closeCalls, closeBlocked, attempted, last>>
    /\ UNCHANGED <<arrived, callVars, decVars>>

\* A consumer receives from Errors
RecvErrors ==
    /\ Errors # <<>>
    /\ Errors' = Tail(Errors)
    /\ UNCHANGED <<started, rpc, rbuf, msgs, dpc, nText, nOther, Trades, Ticker,
                   Depth, Info, Orders, done, closeCalls, closeBlocked, got,
                   attempted, last>>
    /\ UNCHANGED <<arrived, callVars, decVars>>

-----------------------------------------------------------------------------
(* Construction and the authenticated call (gox.go) *)

Callers == 1..MaxCallers

\* NewWithConnection: the key is hex with "-" removed, the secret is base64
NewWithConnection(k, s) ==
    LET kd == HexDecodeString(RemoveAll(k, "-"))
        sd == Base64DecodeString(s)
    IN  IF kd.err \/ sd.err
        THEN [client |-> "error", key |-> NilSlice, secret |-> NilSlice]
        ELSE [client |-> "ok", key |-> kd.val, secret |-> sd.val]

KeyStrings ==
    { <<>>, <<"0","a">>, <<"0","A","-","f","f">>, <<"0","a","b">>, <<"0","g">> }
SecretStrings ==
    { <<>>, <<"A","Q","=","=">>, <<"A","Q","I","D">>, <<"A","Q","I">>, <<"A","Q","=","D">>,
      <<"A","Q","\n","I","D","\r","\n">> }

\* The text `BTC` and the endpoints, as bytes
ItemBTC == <<66, 84, 67>>
Endpoints == { <<105>>, <<111, 114>> }

\* One member of the JSON object: the key's first letter, then the value
Member(tag, bytes) == <<tag, Len(bytes)>> \o bytes

\* json.Marshal of the msg map: its members in the sorted order of their keys
\* (call, id, item, nonce, params)
Marshal(msg) ==
    Member(99, msg.call) \o Member(105, <<msg.id>>) \o Member(116, msg.item)
    \o Member(110, <<msg.nonce>>) \o Member(112, msg.params)

\* sha512.Size: the length of the digest and of the signature
DigestSize == 64

\* crypto/sha512: the initial chaining value and the round constants
Sha512Init ==
    <<<<106,9,230,103,243,188,201,8>>, <<187,103,174,133,132,202,167,59>>,
       <<60,110,243,114,254,148,248,43>>, <<165,79,245,58,95,29,54,241>>,
       <<81,14,82,127,173,230,130,209>>, <<155,5,104,140,43,62,108,31>>,
       <<31,131,217,171,251,65,189,107>>, <<91,224,205,25,19,126,33,121>> >>

Sha512K ==
    <<<<66,138,47,152,215,40,174,34>>, <<113,55,68,145,35,239,101,205>>,
       <<181,192,251,207,236,77,59,47>>, <<233,181,219,165,129,137,219,188>>,
       <<57,86,194,91,243,72,181,56>>, <<89,241,17,241,182,5,208,25>>,
       <<146,63,130,164,175,25,79,155>>, <<171,28,94,213,218,109,129,24>>,
       <<216,7,170,152,163,3,2,66>>, <<18,131,91,1,69,112,111,190>>,
       <<36,49,133,190,78,228,178,140>>, <<85,12,125,195,213,255,180,226>>,
       <<114,190,93,116,242,123,137,111>>, <<128,222,177,254,59,22,150,177>>,
       <<155,220,6,167,37,199,18,53>>, <<193,155,241,116,207,105,38,148>>,
       <<228,155,105,193,158,241,74,210>>, <<239,190,71,134,56,79,37,227>>,
       <<15,193,157,198,139,140,213,181>>, <<36,12,161,204,119,172,156,101>>,
       <<45,233,44,111,89,43,2,117>>, <<74,116,132,170,110,166,228,131>>,
       <<92,176,169,220,189,65,251,212>>, <<118,249,136,218,131,17,83,181>>,
       <<152,62,81,82,238,102,223,171>>, <<168,49,198,109,45,180,50,16>>,
       <<176,3,39,200,152,251,33,63>>, <<191,89,127,199,190,239,14,228>>,
       <<198,224,11,243,61,168,143,194>>, <<213,167,145,71,147,10,167,37>>,
       <<6,202,99,81,224,3,130,111>>, <<20,41,41,103,10,14,110,112>>,
       <<39,183,10,133,70,210,47,252>>, <<46,27,33,56,92,38,201,38>>,
       <<77,44,109,252,90,196,42,237>>, <<83,56,13,19,157,149,179,223>>,
       <<101,10,115,84,139,175,99,222>>, <<118,106,10,187,60,119,178,168>>,
       <<129,194,201,46,71,237,174,230>>, <<146,114,44,133,20,130,53,59>>,
       <<162,191,232,161,76,241,3,100>>, <<168,26,102,75,188,66,48,1>>,
       <<194,75,139,112,208,248,151,145>>, <<199,108,81,163,6,84,190,48>>,
       <<209,146,232,25,214,239,82,24>>, <<214,153,6,36,85,101,169,16>>,
       <<244,14,53,133,87,113,32,42>>, <<16,106,160,112,50,187,209,184>>,
       <<25,164,193,22,184,210,208,200>>, <<30,55,108,8,81,65,171,83>>,
       <<39,72,119,76,223,142,235,153>>, <<52,176,188,181,225,155,72,168>>,
       <<57,28,12,179,197,201,90,99>>, <<78,216,170,74,227,65,138,203>>,
       <<91,156,202,79,119,99,227,115>>, <<104,46,111,243,214,178,184,163>>,
       <<116,143,130,238,93,239,178,252>>, <<120,165,99,111,67,23,47,96>>,
       <<132,200,120,20,161,240,171,114>>, <<140,199,2,8,26,100,57,236>>,
       <<144,190,255,250,35,99,30,40>>, <<164,80,108,235,222,130,189,233>>,
       <<190,249,163,247,178,198,121,21>>, <<198,113,120,242,227,114,83,43>>,
       <<202,39,62,206,234,38,97,156>>, <<209,134,184,199,33,192,194,7>>,
       <<234,218,125,214,205,224,235,30>>, <<245,125,79,127,238,110,209,120>>,
       <<6,240,103,170,114,23,111,186>>, <<10,99,125,197,162,200,152,166>>,
       <<17,63,152,4,190,249,13,174>>, <<27,113,11,53,19,28,71,27>>,
       <<40,219,119,245,35,4,125,132>>, <<50,202,171,123,64,199,36,147>>,
       <<60,158,190,10,21,201,190,188>>, <<67,29,103,196,156,16,13,76>>,
       <<76,197,212,190,203,62,66,182>>, <<89,127,41,156,252,101,126,42>>,
       <<95,203,111,171,58,214,250,236>>, <<108,68,25,140,74,71,88,23>> >>

\* The bit of weight 2^k of a nibble
Bit(n, k) == (n \div (2 ^ k)) % 2

\* The three bit functions of SHA-512, on single bits
BitXor(x, y, z) == (x + y + z) % 2
BitCh(x, y, z) == x * y + (1 - x) * z
BitMaj(x, y, z) == (x + y + z) \div 2

\* The bit function named op
BitOp(op, x, y, z) ==
    CASE op = "xor" -> BitXor(x, y, z)
      [] op = "ch" -> BitCh(x, y, z)
      [] op = "maj" -> BitMaj(x, y, z)

\* A bit function applied to the four bits of three nibbles, as a table
\* indexed by the nibbles plus one
NibbleTable(op) ==
    LET nib(a, b, c) ==
            BitOp(op, Bit(a, 0), Bit(b, 0), Bit(c, 0))
            + 2 * BitOp(op, Bit(a, 1), Bit(b, 1), Bit(c, 1))
            + 4 * BitOp(op, Bit(a, 2), Bit(b, 2), Bit(c, 2))
            + 8 * BitOp(op, Bit(a, 3), Bit(b, 3), Bit(c, 3))
        row(a, b) == [c \in 1..16 |-> nib(a - 1, b - 1, c - 1)] \o <<>>
        plane(a) == [b \in 1..16 |-> row(a, b)] \o <<>>
    IN  [a \in 1..16 |-> plane(a)] \o <<>>

XorTable == NibbleTable("xor")
ChTable == NibbleTable("ch")
MajTable == NibbleTable("maj")

\* The table's function on three bytes
Byte3(T, a, b, c) ==
    T[(a \div 16) + 1][(b \div 16) + 1][(c \div 16) + 1] * 16
    + T[(a % 16) + 1][(b % 16) + 1][(c % 16) + 1]

\* a ^ b on bytes
XorByte(a, b) == Byte3(XorTable, a, b, 0)

\* A uint64 is kept as its eight bytes, the most significant first.
Word3(T, x, y, z) ==
    << Byte3(T, x[1], y[1], z[1]), Byte3(T, x[2], y[2], z[2]),
       Byte3(T, x[3], y[3], z[3]), Byte3(T, x[4], y[4], z[4]),
       Byte3(T, x[5], y[5], z[5]), Byte3(T, x[6], y[6], z[6]),
       Byte3(T, x[7], y[7], z[7]), Byte3(T, x[8], y[8], z[8]) >>

\* x + y on uint64: the sum modulo 2^64
Add64(x, y) ==
    LET s8 == x[8] + y[8]
        s7 == x[7] + y[7] + s8 \div 256
        s6 == x[6] + y[6] + s7 \div 256
        s5 == x[5] + y[5] + s6 \div 256
        s4 == x[4] + y[4] + s5 \div 256
        s3 == x[3] + y[3] + s4 \div 256
        s2 == x[2] + y[2] + s3 \div 256
        s1 == x[1] + y[1] + s2 \div 256
    IN  <<s1 % 256, s2 % 256, s3 % 256, s4 % 256, s5 % 256, s6 % 256, s7 % 256,
          s8 % 256>>

\* bits.RotateLeft64(x, -r): byte i takes the high bits of the byte r \div 8
\* places before it and the low r % 8 bits of the byte before that one
RotateRight64(x, r) ==
    LET q == r \div 8
        p == 2 ^ (r % 8)
        byte(i) == (x[((i - 2 - q + 16) % 8) + 1] % p) * (256 \div p)
                   + x[((i - 1 - q + 16) % 8) + 1] \div p
    IN  <<byte(1), byte(2), byte(3), byte(4), byte(5), byte(6), byte(7), byte(8)>>

\* x >> r on uint64, for r < 8
ShiftRight64(x, r) ==
    LET p == 2 ^ r
        byte(i) == (IF i = 1 THEN 0 ELSE (x[i - 1] % p) * (256 \div p)) + x[i] \div p
    IN  <<byte(1), byte(2), byte(3), byte(4), byte(5), byte(6), byte(7), byte(8)>>

\* The functions of the SHA-512 block function (crypto/sha512, blockGeneric)
BigSigma0(x) ==
    Word3(XorTable, RotateRight64(x, 28), RotateRight64(x, 34), RotateRight64(x, 39))
BigSigma1(x) ==
    Word3(XorTable, RotateRight64(x, 14), RotateRight64(x, 18), RotateRight64(x, 41))
SmallSigma0(x) ==
    Word3(XorTable, RotateRight64(x, 1), RotateRight64(x, 8), ShiftRight64(x, 7))
SmallSigma1(x) ==
    Word3(XorTable, RotateRight64(x, 19), RotateRight64(x, 61), ShiftRight64(x, 6))

RECURSIVE Schedule(_)
\* The message schedule: the sixteen words of the block, extended to eighty
Schedule(w) ==
    IF Len(w) = 80 THEN w
    ELSE LET t == Len(w) + 1
         IN  Schedule(Append(w, Add64(Add64(SmallSigma1(w[t - 2]), w[t - 7]),
                                      Add64(SmallSigma0(w[t - 15]), w[t - 16]))))

\* One round on the working variables a..h, with the round's K[t] + W[t]
Round(v, kw) ==
    LET t1 == Add64(Add64(v[8], BigSigma1(v[5])),
                    Add64(Word3(ChTable, v[5], v[6], v[7]), kw))
        t2 == Add64(BigSigma0(v[1]), Word3(MajTable, v[1], v[2], v[3]))
    IN  <<Add64(t1, t2), v[1], v[2], v[3], Add64(v[4], t1), v[5], v[6], v[7]>>

RECURSIVE Rounds(_, _)
\* The eighty rounds: vs holds the working variables before round 1 and after
\* every round made so far
Rounds(vs, w) ==
    IF Len(vs) > 80 THEN vs[Len(vs)]
    ELSE Rounds(Append(vs, Round(vs[Len(vs)], Add64(Sha512K[Len(vs)], w[Len(vs)]))), w)

\* The sixteen words of a block of 128 bytes
BlockWords(p) == [t \in 1..16 |-> SubSeq(p, 8 * t - 7, 8 * t)] \o <<>>

\* The chaining value h with the working variables v added to it
AddState(h, v) ==
    <<Add64(h[1], v[1]), Add64(h[2], v[2]), Add64(h[3], v[3]), Add64(h[4], v[4]),
      Add64(h[5], v[5]), Add64(h[6], v[6]), Add64(h[7], v[7]), Add64(h[8], v[8])>>

\* blockGeneric on one block of 128 bytes: the new chaining value
Block(h, p) == AddState(h, Rounds(<<h>>, Schedule(BlockWords(p))))

RECURSIVE Blocks(_, _)
Blocks(h, p) ==
    IF p = <<>> THEN h ELSE Blocks(Block(h, SubSeq(p, 1, 128)), SubSeq(p, 129, Len(p)))

\* sha512.BlockSize
BlockSize == 128

\* The padding of a message of n bytes: 0x80, zeros up to 16 bytes short of a
\* block boundary, then the length in bits as a 128-bit number
Padding(n) ==
    LET zeros == (2 * BlockSize - 17 - (n % BlockSize)) % BlockSize
        bits == 8 * n
    IN  <<128>> \o [i \in 1..(zeros + 12) |-> 0]
        \o <<(bits \div 16777216) % 256, (bits \div 65536) % 256, (bits \div 256) % 256,
             bits % 256>>

\* The digest: the eight words of the chaining value, as bytes
DigestBytes(h) == h[1] \o h[2] \o h[3] \o h[4] \o h[5] \o h[6] \o h[7] \o h[8]

\* sha512.Sum512
Sum512(m) == DigestBytes(Blocks(Sha512Init, m \o Padding(Len(m))))

\* hmac.New: a key longer than a block is hashed, and the key is filled up with
\* zeros to a block
HmacKey(k) == IF Len(k) > BlockSize THEN Sum512(k) ELSE k
HmacPad(k0) == k0 \o [i \in 1..(BlockSize - Len(k0)) |-> 0]

\* The key block xor a byte (0x36 for the inner hash, 0x5c for the outer)
XorPad(kp, b) == [i \in 1..BlockSize |-> XorByte(kp[i], b)] \o <<>>

\* The MAC under the padded key: the message is hashed after the key xor 0x36,
\* that digest after the key xor 0x5c
HmacSum(kp, m) == Sum512(XorPad(kp, 92) \o Sum512(XorPad(kp, 54) \o m))

\* crypto/hmac with SHA-512
HmacSha512(k, m) == HmacSum(HmacPad(HmacKey(k)), m)

\* The secrets of the clients that NewWithConnection builds in the model
ClientSecrets ==
    {d.val.bytes : d \in {sd \in {Base64DecodeString(x) : x \in SecretStrings} : ~sd.err}}

\* The bodies the callers of the model marshal
CallBodies ==
    {Marshal(msg) : msg \in [call : Endpoints, item : {ItemBTC}, params : {<<>>},
                             id : 1..MaxCallers, nonce : 1..MaxCallers]}

\* The MAC of each of these bodies under each of these secrets, computed once
Signatures ==
    { <<k, m, HmacSha512(k, m)>> : k \in ClientSecrets, m \in CallBodies }

\* The entries of Signatures for a secret and a body
Signed(k, m) == {t \in Signatures : t[1] = k /\ t[2] = m}

\* sign: hmac.New(sha512.New, g.secret), Write(body), Sum(nil).  The MAC is
\* taken from Signatures when it is there and computed otherwise.
sign(secretBytes, body) ==
    IF Signed(secretBytes, body) # {}
    THEN (CHOOSE t \in Signed(secretBytes, body) : TRUE)[3]
    ELSE HmacSha512(secretBytes, body)

\* The msg map serialized in the order the literal of call lists its members
MarshalLiteralOrder(msg) ==
    Member(99, msg.call) \o Member(116, msg.item) \o Member(112, msg.params)
        \o Member(105, <<msg.id>>) \o Member(110, <<msg.nonce>>)

\* An authenticatedSend that serializes the body again between signing and
\* embedding, in another order of the members
SignedEnvelopeReserialized(k, s, msg) ==
    LET signedReq == sign(s.bytes, MarshalLiteralOrder(msg))
        fullReq == (k.bytes \o signedReq) \o Marshal(msg)
    IN  [op |-> "call", id |-> msg.id, call |-> Base64Encode(fullReq),
         context |-> "mtgox.com"]

\* authenticatedSend after the credential check: the body is marshalled once, signed,
\* appended to the key and the signature, and wrapped.
SignedEnvelope(k, s, msg) ==
    LET req == Marshal(msg)
        signedReq == sign(s.bytes, req)
        fullReq == (k.bytes \o signedReq) \o req
    IN  [op |-> "call", id |-> msg.id, call |-> Base64Encode(fullReq),
         context |-> "mtgox.com"]

\* if g.key == nil || g.secret == nil
CredentialsMissing(k, s) == k.nil \/ s.nil

NoMsg == [call |-> <<>>, item |-> <<>>, params |-> <<>>, id |-> 0, nonce |-> 0]
NoEnvelope == [op |-> "", id |-> 0, call |-> <<>>, context |-> ""]

\* The generators behind the ids and nonces channels: the value that follows n
idsAfter(n) == n + 1
noncesAfter(n) == n + 1

\* call, up to `"id": <-ids`
CallDrawId(c) ==
    /\ client = "ok"
    /\ cpc[c] = "idle"
    /\ \E e \in Endpoints :
          cmsg' = [cmsg EXCEPT ![c] =
                      [call |-> e, item |-> ItemBTC, params |-> <<>>, id |-> nextId,
                       nonce |-> 0]]
    /\ nextId' = idsAfter(nextId)
    /\ cpc' = [cpc EXCEPT ![c] = "nonce"]
    /\ UNCHANGED <<keyStr, secretStr, client, key, secret, nextNonce, cenv, cres, wire,
                   raced>>
    /\ UNCHANGED <<dispVars, decVars>>

\* call: `"nonce": <-nonces`
CallDrawNonce(c) ==
    /\ cpc[c] = "nonce"
    /\ cmsg' = [cmsg EXCEPT ![c].nonce = nextNonce]
    /\ nextNonce' = noncesAfter(nextNonce)
    /\ cpc' = [cpc EXCEPT ![c] = "send"]
    /\ UNCHANGED <<keyStr, secretStr, client, key, secret, nextId, cenv, cres, wire,
                   raced>>
    /\ UNCHANGED <<dispVars, decVars>>

\* The callers inside g.conn.WriteJSON
Writing == {c \in Callers : cpc[c] = "writing"}

\* authenticatedSend, up to the call of g.conn.WriteJSON.  A caller that enters
\* WriteJSON while another is inside it races with that one.
\* json.Marshal of a msg built by call (strings, integers and an empty params
\* map) and the hash's Write return no error, so the two error returns after
\* them are never taken.
AuthenticatedSend(c) ==
    /\ cpc[c] = "send"
    /\ IF CredentialsMissing(key, secret)
       THEN /\ cres' = [cres EXCEPT ![c] = "API Key or secret is invalid or missing."]
            /\ cpc' = [cpc EXCEPT ![c] = "returned"]
            /\ UNCHANGED <<cenv, raced>>
       ELSE /\ cenv' = [cenv EXCEPT ![c] = SignedEnvelope(key, secret, cmsg[c])]
            /\ cpc' = [cpc EXCEPT ![c] = "writing"]
            /\ raced' = IF Writing = {} THEN raced ELSE raced \cup Writing \cup {c}
            /\ UNCHANGED cres
    /\ UNCHANGED <<keyStr, secretStr, client, key, secret, nextId, nextNonce, cmsg, wire>>
    /\ UNCHANGED <<dispVars, decVars>>

\* What is on the connection of a frame that is not a whole envelope: a part of
\* one, or the bytes of two that ran into each other
CorruptFrame == [op |-> "corrupt", id |-> 0, call |-> <<>>, context |-> ""]

\* What g.conn.WriteJSON may leave on the connection for caller c: the envelope,
\* nothing, or a damaged frame
Written(c) == {<<cenv[c]>>, <<>>, <<CorruptFrame>>}

\* g.conn.WriteJSON returns.  Alone on the connection: the envelope is written
\* and nil is returned, or the write fails, with nothing or a part of the frame
\* written, and an error is returned.  The connection supports one writer at a
\* time, so a write that overlapped another caller's is a data race on the
\* writer's buffer and state: the frame may be whole, damaged or missing whatever
\* is returned (nil or an error), or the write panics and the process ends.
WriteJSONReturns(c) ==
    /\ cpc[c] = "writing"
    /\ \E w \in Written(c) :
          /\ wire' = wire \o w
          /\ \/ /\ c \in raced \/ w = <<cenv[c]>>
                /\ cres' = [cres EXCEPT ![c] = "ok"]
                /\ cpc' = [cpc EXCEPT ![c] = "returned"]
             \/ /\ c \in raced \/ w # <<cenv[c]>>
                /\ cres' = [cres EXCEPT ![c] = "write error"]
                /\ cpc' = [cpc EXCEPT ![c] = "returned"]
             \/ /\ c \in raced
                /\ cres' = [cres EXCEPT ![c] = "panic"]
                /\ cpc' = [x \in Callers |-> "panicked"]
    /\ UNCHANGED <<keyStr, secretStr, client, key, secret, nextId, nextNonce, cmsg, cenv,
                   raced>>
    /\ UNCHANGED <<dispVars, decVars>>

-----------------------------------------------------------------------------
(* Trade.UnmarshalJSON applied to one wire value (trade_handler.go) *)

MaxMembers == 3

StringKeys == {"type", "tid", "item", "price_currency", "trade_type", "primary",
               "properties"}
IntKeys == {"amount_int", "price_int"}
WireKeys == StringKeys \cup IntKeys \cup {"date", "note"}

\* The values a wire object may carry under key k: well-formed ones, malformed
\* ones, and ones of another dynamic type than the key's.
WireValues(k) ==
    IF k \in IntKeys
    THEN {JStr(<<"4","2">>), JStr(<<"-","7">>), JStr(<<"+","5">>), JStr(<<"0","0","7">>),
          JStr(<<"-","0">>), JStr(<<"5","x">>),
          JStr(<<"4","2","0","0","0","0","0","0","0","0">>),
          JStr(MinInt64.mag), JStr(<<"-">> \o MaxUint64Mag \o <<"9","x">>), JNum(50)}
    ELSE IF k = "date" THEN {JNum(175), JNum(0 - 175), JStr(<<"1">>)}
    ELSE {JStr(<<"a">>), JNum(10)}

RECURSIVE ObjectsOver(_)
\* The JSON objects whose keys are exactly K
ObjectsOver(K) ==
    IF K = {} THEN {NoMembers}
    ELSE LET k == CHOOSE x \in K : TRUE
         IN  {[x \in K |-> IF x = k THEN v ELSE r[x]] :
                  r \in ObjectsOver(K \ {k}), v \in WireValues(k)}

WireObjects ==
    UNION {ObjectsOver(K) : K \in {D \in SUBSET WireKeys : Cardinality(D) <= MaxMembers}}

\* The values of a "trade" member: a JSON object, the JSON null, or a value of
\* another kind
WireTrades ==
    {[kind |-> "object", raw |-> r] : r \in WireObjects}
        \cup {[kind |-> "null", raw |-> NoMembers], [kind |-> "other", raw |-> NoMembers]}

NotDecoded == [done |-> FALSE, err |-> FALSE, t |-> ZeroTrade]

\* t.UnmarshalJSON(data), the range over the map visiting the keys in some order
DecodeTrade ==
    /\ ~decoded.done
    /\ \E order \in KeyOrders(wireTrade.raw) :
          LET r == TradeUnmarshalJSON(wireTrade.kind, wireTrade.raw, order)
          IN  decoded' = [done |-> TRUE, err |-> r.err, t |-> r.t]
    /\ UNCHANGED <<wireTrade, wireTime, decodedTime>>
    /\ UNCHANGED <<dispVars, callVars>>

-----------------------------------------------------------------------------
(* SimpleTime.UnmarshalJSON applied to one wire value (messages.go) *)

IsDigitAt(s, i) == i <= Len(s) /\ IsDigit(s[i])
IsCharAt(s, i, c) == i <= Len(s) /\ s[i] = c

\* The number time.Parse reads at position i: two digits, or one digit where the
\* layout element is not of fixed width
GetNum(s, i, fixed) ==
    IF ~IsDigitAt(s, i) THEN [err |-> TRUE, n |-> 0, next |-> i]
    ELSE IF ~IsDigitAt(s, i + 1)
    THEN IF fixed THEN [err |-> TRUE, n |-> 0, next |-> i]
         ELSE [err |-> FALSE, n |-> DigitVal(s[i]), next |-> i + 1]
    ELSE [err |-> FALSE, n |-> DigitVal(s[i]) * 10 + DigitVal(s[i + 1]), next |-> i + 2]

RECURSIVE DigitsEnd(_, _)
\* The position after the run of digits that starts at i
DigitsEnd(s, i) == IF IsDigitAt(s, i) THEN DigitsEnd(s, i + 1) ELSE i

RECURSIVE SpacesEnd(_, _)
\* The position after the run of spaces that starts at i
SpacesEnd(s, i) == IF IsCharAt(s, i, " ") THEN SpacesEnd(s, i + 1) ELSE i

RECURSIVE Pow10(_)
Pow10(n) == IF n = 0 THEN 1 ELSE 10 * Pow10(n - 1)

\* parseNanoseconds: the digits of the fraction, at most nine of them kept, as a
\* number of nanoseconds
Nanoseconds(ds) ==
    LET kept == IF Len(ds) > 9 THEN SubSeq(ds, 1, 9) ELSE ds
    IN  DecimalValue(kept) * Pow10(9 - Len(kept))

IsLeap(y) == y % 4 = 0 /\ (y % 100 # 0 \/ y % 400 = 0)
DaysIn(m, y) ==
    IF m = 2 THEN (IF IsLeap(y) THEN 29 ELSE 28)
    ELSE IF m \in {4, 6, 9, 11} THEN 30 ELSE 31

\* A civil time in UTC; the zero time.Time is January 1 of year 1
Civil(y, mo, d, h, mi, sec, nsec) ==
    [year |-> y, month |-> mo, day |-> d, hour |-> h, min |-> mi, sec |-> sec,
     nsec |-> nsec]
ZeroCivil == Civil(1, 1, 1, 0, 0, 0, 0)

\* time.Parse("2006-01-02 15:04:05", s): a four-digit year, two-digit month and
\* day, an hour of one or two digits, two-digit minute and second, the literal
\* separators of the layout between them (the space of the layout stands for one
\* or more spaces), optionally a fractional second, and nothing after; each field
\* within its range.
TimeParse(s) ==
    LET yearOk == Len(s) >= 4 /\ \A i \in 1..4 : IsDigit(s[i])
        year == DecimalValue(SubSeq(s, 1, 4))
        mo == GetNum(s, 6, TRUE)
        dy == GetNum(s, 9, TRUE)
        hr == GetNum(s, SpacesEnd(s, 11), FALSE)
        mi == GetNum(s, hr.next + 1, TRUE)
        se == GetNum(s, mi.next + 1, TRUE)
        hasFrac == /\ se.next + 1 <= Len(s)
                   /\ s[se.next] \in {".", ","}
                   /\ IsDigit(s[se.next + 1])
        end == IF hasFrac THEN DigitsEnd(s, se.next + 1) ELSE se.next
        nsec == IF hasFrac THEN Nanoseconds(SubSeq(s, se.next + 1, end - 1)) ELSE 0
        syntaxOk == /\ yearOk
                    /\ IsCharAt(s, 5, "-") /\ ~mo.err
                    /\ IsCharAt(s, 8, "-") /\ ~dy.err
                    /\ IsCharAt(s, 11, " ") /\ ~hr.err
                    /\ IsCharAt(s, hr.next, ":") /\ ~mi.err
                    /\ IsCharAt(s, mi.next, ":") /\ ~se.err
                    /\ end = Len(s) + 1
        rangeOk == /\ mo.n \in 1..12
                   /\ hr.n < 24 /\ mi.n < 60 /\ se.n < 60
                   /\ dy.n >= 1 /\ dy.n <= DaysIn(mo.n, year)
    IN  IF syntaxOk /\ rangeOk
        THEN [err |-> FALSE, time |-> Civil(year, mo.n, dy.n, hr.n, mi.n, se.n, nsec)]
        ELSE [err |-> TRUE, time |-> ZeroCivil]

\* (t *SimpleTime) UnmarshalJSON(b): b is the JSON text of the value, which for a
\* JSON string begins and ends with a double quote; *t is assigned on success only.
SimpleTimeUnmarshalJSON(b, t) ==
    LET r == TimeParse(b)
    IN  IF r.err THEN [err |-> TRUE, t |-> t] ELSE [err |-> FALSE, t |-> r.time]

\* The JSON text of a string with content text (content without escapes), or the
\* bare text
JSONText(w) == IF w.quoted THEN <<"\"">> \o w.text \o <<"\"">> ELSE w.text

WireDates ==
    {<<"2","0","2","1","-","0","5","-","0","1">>,
     <<"2","0","2","1","-","0","2","-","2","9">>,
     <<"2","0","2","0","-","0","2","-","2","9">>,
     <<"2","0","2","1","-","1","3","-","0","1">>,
     <<"2","0","2","1","/","0","5","/","0","1">>,
     <<"2","1","-","0","5","-","0","1">>}
WireDateSeps == {<<" ">>, <<" "," ">>, <<"T">>}
WireClocks ==
    {<<"1","0",":","0","0",":","0","0">>,
     <<"9",":","0","0",":","0","0">>,
     <<"2","4",":","0","0",":","0","0">>,
     <<"1","0",":","6","0",":","0","0">>,
     <<"1","0",":","0","0",":","0","0",".","5">>,
     <<"1","0",":","0","0",":","0","0",".","1","2","3","4","5","6","7","8","9","1">>,
     <<"1","0",":","0","0">>}

\* The values given to the decoder: JSON strings, the same texts without the
\* quotes, and the JSON null
WireTimes ==
    {[quoted |-> q, text |-> d \o sep \o c] :
         q \in BOOLEAN, d \in WireDates, sep \in WireDateSeps, c \in WireClocks}
        \cup {[quoted |-> FALSE, text |-> <<"n","u","l","l">>]}

NoWireTime == [quoted |-> FALSE, text |-> <<>>]
TimeNotDecoded == [done |-> FALSE, err |-> FALSE, t |-> ZeroCivil]

\* t.UnmarshalJSON(b) on a zero SimpleTime
DecodeTime ==
    /\ ~decodedTime.done
    /\ LET r == SimpleTimeUnmarshalJSON(JSONText(wireTime), ZeroCivil)
       IN  decodedTime' = [done |-> TRUE, err |-> r.err, t |-> r.t]
    /\ UNCHANGED <<wireTrade, decoded, wireTime>>
    /\ UNCHANGED <<dispVars, callVars>>

-----------------------------------------------------------------------------
(* Specifications *)

InitDispatch ==
    /\ started = 0
    /\ rpc = [i \in Tasks |-> "none"]
    /\ rbuf = [i \in Tasks |-> NoRead]
    /\ msgs = [i \in Tasks |-> <<>>]
    /\ dpc = [i \in Tasks |-> "none"]
    /\ nText = 0
    /\ nOther = 0
    /\ Trades = <<>> /\ Ticker = <<>> /\ Depth = <<>> /\ Info = <<>>
    /\ Orders = <<>> /\ Errors = <<>> /\ done = <<>>
    /\ closeCalls = 0
    /\ closeBlocked = 0
    /\ got = <<>>
    /\ attempted = <<>>
    /\ last = NeverRan
    /\ arrived = <<>>

InitCall(k, s) ==
    /\ keyStr = k
    /\ secretStr = s
    /\ client = NewWithConnection(k, s).client
    /\ key = NewWithConnection(k, s).key
    /\ secret = NewWithConnection(k, s).secret
    /\ nextId = 1
    /\ nextNonce = 1
    /\ cpc = [c \in Callers |-> "idle"]
    /\ cmsg = [c \in Callers |-> NoMsg]
    /\ cenv = [c \in Callers |-> NoEnvelope]
    /\ cres = [c \in Callers |-> "none"]
    /\ wire = <<>>
    /\ raced = {}

\* No decoder is run on its own
InitNoDecode ==
    /\ wireTrade = [kind |-> "object", raw |-> NoMembers]
    /\ decoded = NotDecoded
    /\ wireTime = NoWireTime
    /\ decodedTime = TimeNotDecoded

\* The read-and-dispatch side of a client built from well-formed credentials, whose
\* application calls Start once
Init == InitDispatch /\ InitCall(<<"0","a">>, <<"A","Q","=","=">>) /\ InitNoDecode

Next ==
    \/ Start(1)
    \/ \E i \in Tasks : ReadText(i)
    \/ \E i \in Tasks : ReadOther(i, MaxOther)
    \/ \E i \in Tasks : ReadFails(i)
    \/ \E i \in Tasks : SendReadError(i)
    \/ \E i \in Tasks : SendMsg(i)
    \/ \E i \in Tasks : SendTypeError(i)
    \/ \E i \in Tasks : Dispatch(i)
    \/ Close
    \/ RecvTrades
    \/ RecvErrors

Spec == Init /\ [][Next]_vars

\* The goroutines of the client are scheduled: a send that can proceed and a queued
\* frame are eventually taken.  Nothing makes the transport deliver a frame or the
\* application call Start, Close or receive.
Fairness ==
    \A i \in Tasks :
        /\ WF_vars(SendReadError(i))
        /\ WF_vars(SendMsg(i))
        /\ WF_vars(SendTypeError(i))
        /\ WF_vars(Dispatch(i))

FairSpec == Spec /\ Fairness

\* The call side, for every pair of credentials given to NewWithConnection
CallInit ==
    /\ InitDispatch
    /\ \E k \in KeyStrings, s \in SecretStrings : InitCall(k, s)
    /\ InitNoDecode

CallNext ==
    \/ \E c \in Callers : CallDrawId(c)
    \/ \E c \in Callers : CallDrawNonce(c)
    \/ \E c \in Callers : AuthenticatedSend(c)
    \/ \E c \in Callers : WriteJSONReturns(c)

CallSpec == CallInit /\ [][CallNext]_vars

\* The transport delivers only frames that are not text frames, as many as fill
\* Errors and one more
MaxBacklog == ErrorsCap + 1

BacklogNext ==
    \/ Start(1)
    \/ \E i \in Tasks : ReadOther(i, MaxBacklog)
    \/ \E i \in Tasks : ReadFails(i)
    \/ \E i \in Tasks : SendReadError(i)
    \/ \E i \in Tasks : SendTypeError(i)
    \/ RecvErrors

BacklogSpec == Init /\ [][BacklogNext]_vars

\* Trade.UnmarshalJSON on every wire value of WireTrades
TradeDecodeInit ==
    /\ InitDispatch
    /\ InitCall(<<"0","a">>, <<"A","Q","=","=">>)
    /\ wireTrade \in WireTrades
    /\ decoded = NotDecoded
    /\ wireTime = NoWireTime
    /\ decodedTime = TimeNotDecoded

TradeDecodeNext == DecodeTrade

TradeDecodeSpec == TradeDecodeInit /\ [][TradeDecodeNext]_vars

\* SimpleTime.UnmarshalJSON on every wire value of WireTimes
TimeDecodeInit ==
    /\ InitDispatch
    /\ InitCall(<<"0","a">>, <<"A","Q","=","=">>)
    /\ wireTrade = [kind |-> "object", raw |-> NoMembers]
    /\ decoded = NotDecoded
    /\ wireTime \in WireTimes
    /\ decodedTime = TimeNotDecoded

TimeDecodeNext == DecodeTime

TimeDecodeSpec == TimeDecodeInit /\ [][TimeDecodeNext]_vars

\* An application that calls Start up to MaxStarts times on one client
StartsNext ==
    \/ Start(MaxStarts)
    \/ \E i \in Tasks : ReadText(i)
    \/ \E i \in Tasks : ReadFails(i)
    \/ \E i \in Tasks : SendReadError(i)
    \/ \E i \in Tasks : SendMsg(i)
    \/ \E i \in Tasks : Dispatch(i)

StartsSpec == Init /\ [][StartsNext]_vars

-----------------------------------------------------------------------------
(* Properties *)

KnownPrivate == {"debug", "ticker", "trade", "depth", "result"}

\* C1: a trade frame whose payload fails to decode makes exactly one attempt on
\* Errors and puts no value on Trades.
C1_FailedDecodePublishesNothing ==
    (last.branch = "trade" /\ last.decodeErr) => (last.errTried = 1 /\ last.sent = 0)

\* C2: a reader that has an error to report is never blocked on the send to Errors:
\* the report goes through or is dropped, whatever Errors holds.
C2_ErrorReportNeverBlocks ==
    \A i \in Tasks :
        /\ rpc[i] = "sendErr" => ENABLED SendReadError(i)
        /\ rpc[i] = "sendTypeErr" => ENABLED SendTypeError(i)

\* C3 as stated: with no receive from Trades so far, after more than one
\* successfully decoded trade frame the value waiting in Trades is the most recent.
C3_MostRecentObservable ==
    ( /\ got = <<>>
      /\ Len(attempted) > 1
      /\ \A n \in 1..Len(attempted) : ~attempted[n].err )
    => Trades = <<attempted[Len(attempted)].payload>>

\* C3 amended: with no receive from Trades so far, after more than one trade frame
\* the value waiting in Trades is the first one handleTrade offered; the later ones
\* were dropped.
C3_FirstObservable ==
    (got = <<>> /\ Len(attempted) > 1) => Trades = <<attempted[1].payload>>

C3_Witness ==
    /\ got = <<>>
    /\ Len(attempted) > 1
    /\ \A n \in 1..Len(attempted) : ~attempted[n].err
    /\ attempted[Len(attempted)].payload # attempted[1].payload

\* C4: a queued frame can always be handled, and handling a trade frame while Trades
\* is full leaves Trades and every other output channel as they were: the new
\* value is dropped.
C4_FullTradesDropsNew ==
    /\ [](\A i \in Tasks : (dpc[i] = "range" /\ msgs[i] # <<>>) => ENABLED Dispatch(i))
    /\ [][ (last'.seq # last.seq /\ last'.branch = "trade" /\ Len(Trades) = TradesCap)
           => /\ last'.sent = 0
              /\ UNCHANGED <<Trades, Ticker, Depth, Info, Orders>>
              /\ dpc' = dpc ]_vars

C4_Witness ==
    /\ last.branch = "trade"
    /\ last.pubTried = 1
    /\ last.sent = 0
    /\ Len(attempted) > 1
    /\ Trades # <<attempted[Len(attempted)].payload>>

\* C5: a frame handled after Close has signalled causes no send attempt on an output
\* channel or on Errors.
C5_NoSendAfterClose ==
    last.afterClose => (last.errTried = 0 /\ last.pubTried = 0)

\* C6: at most one caller is inside conn.WriteJSON at any time.
C6_OneWriterAtATime ==
    Cardinality({c \in Callers : cpc[c] = "writing"}) <= 1

\* C7: a client built from an empty key or an empty secret never reaches the
\* transport write, and every call that has returned returned the configuration
\* error.
C7_EmptyCredentialsRejected ==
    (client = "ok" /\ (keyStr = <<>> \/ secretStr = <<>>))
    => /\ wire = <<>>
       /\ \A c \in Callers :
             /\ cpc[c] # "writing"
             /\ cpc[c] = "returned" =>
                   cres[c] = "API Key or secret is invalid or missing."

\* C8: once the reader has stopped on a read error, the goroutine started by Start
\* eventually leaves its range loop.
C8_DispatchTerminates ==
    \A i \in Tasks : (rpc[i] = "stopped") ~> (dpc[i] = "exited")

\* C9: every frame handled takes the branch of its `private` discriminator when that
\* is one of the five known ones and the default branch otherwise, and the default
\* branch prints one dump, attempts no send on an output channel or on Errors,
\* changes no channel and leaves the loop running.
C9_OneBranchPerFrame ==
    [][ last'.seq # last.seq
        => LET f == last'.frame
               p == IF f.json THEN f.private ELSE ""
           IN  /\ last'.branch = (IF p \in KnownPrivate THEN p ELSE "default")
               /\ last'.branch = "default"
                  => /\ last'.dumps = 1
                     /\ last'.pubTried = 0
                     /\ last'.errTried = 0
                     /\ UNCHANGED <<Trades, Ticker, Depth, Info, Orders, Errors>>
                     /\ dpc' = dpc ]_vars

C9_Witness ==
    /\ last.branch = "default"
    /\ last.frame.json
    /\ last.frame.private = "remark"
    /\ last.dumps = 1
    /\ last.seq > 1

\* What the receiver of an envelope checks: the call field is base64 of the key, then
\* the signature under the secret of the bytes that follow it, and those bytes are
\* the serialized msg.
EnvelopeOk(env, msg) ==
    LET d == Base64DecodeString(env.call)
        raw == d.val.bytes
        nk == Len(key.bytes)
        ns == DigestSize
        body == SubSeq(raw, nk + ns + 1, Len(raw))
    IN  /\ env.op = "call"
        /\ env.context = "mtgox.com"
        /\ env.id = msg.id
        /\ ~d.err
        /\ Len(raw) >= nk + ns
        /\ SubSeq(raw, 1, nk) = key.bytes
        /\ body = Marshal(msg)
        /\ SubSeq(raw, nk + 1, nk + ns) = sign(secret.bytes, body)

\* C10: for every successful authenticatedSend, the envelope it handed to the
\* transport write has op "call", context "mtgox.com", the id of the call body,
\* and a call field that is the base64 of the key, then the HMAC-SHA512 under the
\* secret of the bytes that follow it, then those bytes, which are the serialized
\* body.  The same holds of the envelope of a caller still inside the write.
C10_EnvelopeIsSignedBody ==
    \A c \in Callers :
        (cpc[c] = "writing" \/ cres[c] = "ok") => EnvelopeOk(cenv[c], cmsg[c])

C10_Witness ==
    /\ key.bytes # <<>>
    /\ secret.bytes = <<1, 2, 3>>
    /\ \A c \in Callers : cres[c] = "ok"
    /\ \E c, d \in Callers : cmsg[c].call # cmsg[d].call /\ cmsg[c].nonce < cmsg[d].nonce
    /\ \A c \in Callers : \E n \in 1..Len(wire) : wire[n] = cenv[c]

-----------------------------------------------------------------------------
(* Properties of Trade.UnmarshalJSON, under TradeDecodeSpec *)

\* The string a wire object carries under key k, if it carries one
StringAt(raw, k) ==
    IF k \in DOMAIN raw /\ raw[k].kind = "string" THEN raw[k].s ELSE <<>>

\* A number of tenths of a second, truncated to whole seconds
WholeSeconds(n) ==
    CHOOSE q \in (0 - 100)..100 :
        IF n >= 0 THEN 10 * q <= n /\ n < 10 * q + 10
        ELSE 10 * q - 10 < n /\ n <= 10 * q

\* C11: a decode that succeeds gives each field the value of its wire key (the
\* integer fields the value of the decimal string, Timestamp the epoch value
\* truncated to whole seconds), leaves the field of every key that is absent at its
\* zero value and ignores unknown keys, whatever the order the keys are visited in.
C11_KeysMapToFields ==
    LET raw == wireTrade.raw
    IN  (decoded.done /\ ~decoded.err) =>
            decoded.t =
                [Type |-> StringAt(raw, "type"),
                 Tid |-> StringAt(raw, "tid"),
                 Amount |-> IF StringAt(raw, "amount_int") = <<>> THEN ZeroInt64
                            ELSE ParseInt(raw["amount_int"].s).val,
                 Price |-> IF StringAt(raw, "price_int") = <<>> THEN ZeroInt64
                           ELSE ParseInt(raw["price_int"].s).val,
                 Instrument |-> StringAt(raw, "item"),
                 Currency |-> StringAt(raw, "price_currency"),
                 TradeType |-> StringAt(raw, "trade_type"),
                 Primary |-> StringAt(raw, "primary"),
                 Properties |-> StringAt(raw, "properties"),
                 Timestamp |-> IF "date" \in DOMAIN raw /\ raw["date"].kind = "number"
                               THEN TimeUnix(WholeSeconds(raw["date"].n))
                               ELSE ZeroTime]

C11_Witness ==
    /\ decoded.done /\ ~decoded.err
    /\ DOMAIN wireTrade.raw = {"item", "date", "note"}
    /\ wireTrade.raw["date"] = JNum(0 - 175)
    /\ decoded.t.Instrument = <<"a">>
    /\ decoded.t.Currency = <<>>
    /\ decoded.t.Timestamp = TimeUnix(0 - 17)

\* A decimal string of a signed 64-bit integer: an optional sign, one or more
\* digits, and a value between -2^63 and 2^63 - 1
IsInt64Numeral(s) ==
    LET body == IF s # <<>> /\ s[1] \in {"+", "-"} THEN Tail(s) ELSE s
    IN  /\ body # <<>>
        /\ \A i \in 1..Len(body) : IsDigit(body[i])
        /\ IF s[1] = "-" THEN ~MagLess(MinInt64.mag, StripZeros(body))
           ELSE ~MagLess(MaxInt64.mag, StripZeros(body))

\* A wire object with a present amount_int or price_int string that is no such
\* decimal string
HasBadInteger(raw) ==
    \E k \in IntKeys \cap DOMAIN raw : raw[k].kind = "string" /\ ~IsInt64Numeral(raw[k].s)

\* C12 as stated: a decode returns an error only for a present amount_int or
\* price_int string that fails the integer parsing.
C12_ErrorOnlyOnBadInteger ==
    (decoded.done /\ decoded.err) => HasBadInteger(wireTrade.raw)

\* C12, amended: a decode returns an error only when the wire value is one that
\* json.Unmarshal cannot put in the map (a JSON value that is neither an object
\* nor null) or a present amount_int or price_int string fails the integer
\* parsing; the JSON null, absent keys, unknown keys and values of another
\* dynamic type do not make it fail.
C12_ErrorOnlyOnBadIntegerOrNoMap ==
    (decoded.done /\ decoded.err) =>
        (wireTrade.kind = "other" \/ HasBadInteger(wireTrade.raw))

C12_Witness ==
    /\ decoded.done /\ decoded.err
    /\ wireTrade.kind = "object"
    /\ DOMAIN wireTrade.raw = {"amount_int", "price_int", "note"}
    /\ wireTrade.raw["amount_int"] = JNum(50)
    /\ wireTrade.raw["price_int"] = JStr(MinInt64.mag)

\* An int64 written in base 10
FormatInt(v) == IF v.neg THEN <<"-">> \o v.mag ELSE v.mag

\* The decimal string that formatting produces: no plus sign, no leading zero,
\* no negative zero
IsCanonicalNumeral(s) ==
    LET body == IF s # <<>> /\ s[1] = "-" THEN Tail(s) ELSE s
    IN  /\ body # <<>>
        /\ \A i \in 1..Len(body) : IsDigit(body[i])
        /\ body[1] # "0" \/ s = <<"0">>

\* C13 as stated: after a successful decode, Amount and Price written in base 10
\* are the amount_int and price_int strings of the wire value.
C13_RoundTrip ==
    LET raw == wireTrade.raw
    IN  (decoded.done /\ ~decoded.err) =>
            /\ StringAt(raw, "amount_int") # <<>> =>
                   FormatInt(decoded.t.Amount) = raw["amount_int"].s
            /\ StringAt(raw, "price_int") # <<>> =>
                   FormatInt(decoded.t.Price) = raw["price_int"].s

\* C13, amended: after a successful decode, Amount and Price written in base 10
\* are the amount_int and price_int strings of the wire value when those are
\* written without a plus sign, leading zeros or a negative zero.
C13_CanonicalRoundTrip ==
    LET raw == wireTrade.raw
    IN  (decoded.done /\ ~decoded.err) =>
            /\ IsCanonicalNumeral(StringAt(raw, "amount_int")) =>
                   FormatInt(decoded.t.Amount) = raw["amount_int"].s
            /\ IsCanonicalNumeral(StringAt(raw, "price_int")) =>
                   FormatInt(decoded.t.Price) = raw["price_int"].s

C13_Witness ==
    /\ decoded.done /\ ~decoded.err
    /\ StringAt(wireTrade.raw, "amount_int") = <<"-","7">>
    /\ StringAt(wireTrade.raw, "price_int") = <<"4","2","0","0","0","0","0","0","0","0">>
    /\ FormatInt(decoded.t.Amount) = <<"-","7">>
    /\ decoded.t.Price = Int64(FALSE, <<"4","2","0","0","0","0","0","0","0","0">>)

-----------------------------------------------------------------------------
(* Properties of SimpleTime.UnmarshalJSON, under TimeDecodeSpec *)

\* Text of the form YYYY-MM-DD HH:MM:SS
HasLayout(text) ==
    /\ Len(text) = 19
    /\ \A i \in {1, 2, 3, 4, 6, 7, 9, 10, 12, 13, 15, 16, 18, 19} : IsDigit(text[i])
    /\ text[5] = "-" /\ text[8] = "-" /\ text[11] = " "
    /\ text[14] = ":" /\ text[17] = ":"

\* The civil time such a text names
CivilOf(text) ==
    Civil(DecimalValue(SubSeq(text, 1, 4)), DecimalValue(SubSeq(text, 6, 7)),
          DecimalValue(SubSeq(text, 9, 10)), DecimalValue(SubSeq(text, 12, 13)),
          DecimalValue(SubSeq(text, 15, 16)), DecimalValue(SubSeq(text, 18, 19)), 0)

\* A civil time that exists
IsCivil(c) ==
    /\ c.month \in 1..12
    /\ c.day \in 1..DaysIn(c.month, c.year)
    /\ c.hour \in 0..23 /\ c.min \in 0..59 /\ c.sec \in 0..59

\* C14: decoding a SimpleTime from a JSON string succeeds exactly when the content
\* of the string has the layout YYYY-MM-DD HH:MM:SS and names a civil time, and
\* then gives that time; otherwise it returns an error and leaves the target as
\* it was.
C14_LayoutDecodes ==
    (decodedTime.done /\ wireTime.quoted) =>
        IF HasLayout(wireTime.text) /\ IsCivil(CivilOf(wireTime.text))
        THEN ~decodedTime.err /\ decodedTime.t = CivilOf(wireTime.text)
        ELSE decodedTime.err /\ decodedTime.t = ZeroCivil

-----------------------------------------------------------------------------
(* Properties of the reader and the dispatcher, continued *)

OutputChannels == <<Trades, Ticker, Depth, Info, Orders>>

\* C15: a frame that is not a text frame is never queued for handle and makes no
\* typed event; the reader reports it once on Errors and goes back to reading; a
\* reader stops only after ReadMessage returned an error.
C15_NonTextReportedNotHandled ==
    /\ [](\A i \in Tasks :
            /\ \A n \in 1..Len(msgs[i]) : msgs[i][n] \in TextFrames
            /\ last.seq > 0 => last.frame \in TextFrames)
    /\ [][\A i \in Tasks :
            /\ (rpc[i] = "sendTypeErr" /\ rpc'[i] # "sendTypeErr") =>
                   /\ rbuf[i].messageType # TextMessage
                   /\ rpc'[i] = "read"
                   /\ Errors' = Append(Errors, "type")
                   /\ msgs' = msgs
                   /\ OutputChannels' = OutputChannels
                   /\ last' = last
            /\ (rpc[i] # "stopped" /\ rpc'[i] = "stopped") =>
                   rpc[i] = "sendErr" /\ rbuf[i].err]_vars

C15_Witness ==
    /\ nOther = 1
    /\ \E n \in 1..Len(Errors) : Errors[n] = "type"
    /\ rpc[1] = "sendMsg"
    /\ rbuf[1].messageType = TextMessage
    /\ nText = 1

\* C16: a text frame that is not JSON takes the default branch, makes no typed
\* event, leaves the dispatcher running, and has exactly one error offered to
\* Errors.
C16_NonJSONReportedOnce ==
    (last.seq > 0 /\ ~last.frame.json) =>
        /\ last.branch = "default"
        /\ last.pubTried = 0
        /\ dpc[last.task] = "range"
        /\ last.errTried = 1

\* C17: at most one task is reading frames from the connection.
C17_ExclusiveReader ==
    Cardinality({i \in Tasks : rpc[i] = "read"}) <= 1

\* C18: no caller of Close is left blocked.
C18_CloseNeverBlocks == closeBlocked = 0

\* A payload that decoding the frame d can give
DecodesTo(d, payload) ==
    \E order \in KeyOrders(d.trade) : UnmarshalTradePayload(d, order).payload = payload

RECURSIVE IsSubsequence(_, _)
\* The payloads g come from frames of a, each from a later frame than the one before
IsSubsequence(g, a) ==
    IF g = <<>> THEN TRUE
    ELSE IF a = <<>> THEN FALSE
    ELSE IF DecodesTo(Head(a), Head(g)) THEN IsSubsequence(Tail(g), Tail(a))
    ELSE IsSubsequence(g, Tail(a))

\* C19: with a single Start, the trades a consumer has received from Trades are,
\* in order, trades of a subsequence of the trade frames the transport delivered.
C19_OrderPreserved == IsSubsequence(got, arrived)

C19_Witness ==
    /\ Len(arrived) = 2
    /\ Len(got) = 2
    /\ got[1] # got[2]
    /\ DecodesTo(arrived[1], got[1])
    /\ ~DecodesTo(arrived[1], got[2])

\* The nonce of the call whose envelope env is
NonceOf(env) == cmsg[CHOOSE c \in Callers : cenv[c] = env].nonce

\* The envelopes that reached the connection whole, in the order they did
RECURSIVE Whole(_)
Whole(w) ==
    IF w = <<>> THEN <<>>
    ELSE IF Head(w) = CorruptFrame THEN Whole(Tail(w))
    ELSE <<Head(w)>> \o Whole(Tail(w))

\* C20: every call that has drawn has taken one id and one nonce, and the
\* envelopes on the connection are in increasing order of nonce.
C20_WrittenInNonceOrder ==
    /\ nextId = 1 + Cardinality({c \in Callers : cpc[c] # "idle"})
    /\ nextNonce = 1 + Cardinality({c \in Callers : cpc[c] \notin {"idle", "nonce"}})
    /\ \A n, m \in 1..Len(Whole(wire)) :
          n < m => NonceOf(Whole(wire)[n]) < NonceOf(Whole(wire)[m])

====
